---- MODULE Spec2Model ----
(***************************************************************************)
(* Model of encoding_tools: io.download_neural_data,                       *)
(* visualizations.overlay_neurons and visualizations.create_subplot_axes.  *)
(*                                                                         *)
(* Path strings are sequences of tokens: the separator "/" or a name.  A   *)
(* string never holds two adjacent name tokens, so one name token is one   *)
(* path component.  os.path is posixpath.  Directories of the file system  *)
(* are sequences of names (<<>> is the root).                              *)
(***************************************************************************)
EXTENDS Integers, Sequences, FiniteSets, TLC

VARIABLES
    \* ---- download_neural_data (io.py) ----
    pc,             \* position in download_neural_data
    data_type,      \* argument
    destination,    \* argument / local: a path string (<<>> while it is None)
    dest_none,      \* TRUE iff the call passed no destination (None)
    url,            \* local, meaningful iff "url" \in bound
    fname,          \* local, meaningful iff "fname" \in bound
    data_file,      \* local, meaningful iff "data_file" \in bound
    bound,          \* names of the locals that are bound
    cwd,            \* os.getcwd(), as a directory
    dirs,           \* directories that exist
    dirs0,          \* directories that existed when the call started
    files,          \* files written by the download operation (path strings)
    gdown_calls,    \* calls of gdown.download: <<[url, output, dir_exists]>>
    exc,            \* exception that ended the call, "" if none
    retval,         \* returned path string, meaningful iff pc = "returned"
    \* ---- overlay_neurons (visualizations.py) ----
    opc,            \* position in overlay_neurons
    shape,          \* <<H, W>> of neuron_footprints
    neuron_footprints, \* [<<r, c, n>> -> value], value in units of 1/Denom
    n1, n2, n3,     \* arguments
    cast_wrap,      \* TRUE: out-of-range float -> uint8 wraps; FALSE: saturates
    all_cells,      \* [<<r, c, ch>> -> 0..255]
    examples,       \* [<<r, c, ch>> -> 0..255]
    composite,      \* [<<r, c, ch>> -> 0..255], the image given to imshow
    \* ---- create_subplot_axes (visualizations.py) ----
    apc,            \* position in create_subplot_axes
    n_rows, n_cols, fig_size, \* arguments
    subplot_num,    \* local
    k,              \* loop variable
    axes_list,      \* local / result: sequence of axes
    fig,            \* number of the figure created by the call, 0 before
    figures,        \* the plotting library's figures: [number -> figsize]
    figures0,       \* figure numbers that existed when the call started
    add_subplot_calls, \* calls of fig.add_subplot: <<[nrows, ncols, index]>>
    aexc            \* exception that ended create_subplot_axes, "" if none

dvars == <<pc, data_type, destination, dest_none, url, fname, data_file, bound,
           cwd, dirs, dirs0, files, gdown_calls, exc, retval>>
ovars == <<opc, shape, neuron_footprints, n1, n2, n3, cast_wrap, all_cells,
           examples, composite>>
avars == <<apc, n_rows, n_cols, fig_size, subplot_num, k, axes_list, fig,
           figures, figures0, add_subplot_calls, aexc>>
vars == <<dvars, ovars, avars>>

----------------------------------------------------------------------------
(* Bounds *)
MaxDepth == 2       \* deepest working directory / pre-existing directory
MaxDestLen == 3     \* longest destination string, in tokens
NumNeurons == 2     \* size of the neuron axis of neuron_footprints
MaxVal == 2         \* largest footprint value, in units of 1/Denom
Denom == 2          \* footprint values are the floats 0/Denom .. MaxVal/Denom
MaxCount == 3       \* largest n_rows / n_cols
MaxNeg == 1         \* n_rows / n_cols go down to -MaxNeg

----------------------------------------------------------------------------
(* Path strings: posixpath *)
SEP == "/"
DataFolder == "DataSAI_data_folder"
Names == {"a", DataFolder}
Tokens == Names \cup {SEP}

RECURSIVE SeqsUpTo(_, _)
SeqsUpTo(S, n) ==
    IF n = 0 THEN {<<>>}
    ELSE LET shorter == SeqsUpTo(S, n - 1)
         IN shorter \cup {Append(s, x) : s \in {t \in shorter : Len(t) = n - 1}, x \in S}

WellFormed(s) == \A i \in 1..(Len(s) - 1) : s[i] = SEP \/ s[i + 1] = SEP

\* destination strings a caller may pass
DestStrings == {s \in SeqsUpTo(Tokens, MaxDestLen) : WellFormed(s)}
\* directories: sequences of names
AllDirs == SeqsUpTo(Names, MaxDepth)

StartsWithSep(s) == Len(s) > 0 /\ s[1] = SEP
EndsWithSep(s) == Len(s) > 0 /\ s[Len(s)] = SEP

\* posixpath.join(a, b)
Join(a, b) ==
    IF StartsWithSep(b) THEN b
    ELSE IF Len(a) = 0 \/ EndsWithSep(a) THEN a \o b
    ELSE a \o <<SEP>> \o b

\* p.rfind(sep) + 1
RFindSep(p) ==
    LET hits == {i \in 1..Len(p) : p[i] = SEP}
    IN IF hits = {} THEN 0 ELSE CHOOSE i \in hits : \A j \in hits : j <= i

RECURSIVE RStripSep(_)
RStripSep(s) == IF EndsWithSep(s) THEN RStripSep(SubSeq(s, 1, Len(s) - 1)) ELSE s

\* posixpath.split(p) = <<head, tail>>
Split(p) ==
    LET i == RFindSep(p)
        head == SubSeq(p, 1, i)
        tail == SubSeq(p, i + 1, Len(p))
    IN <<IF head # <<>> /\ (\E j \in 1..Len(head) : head[j] # SEP)
            THEN RStripSep(head) ELSE head,
         tail>>

\* os.getcwd(): the normalized absolute path string of a directory
RECURSIVE GetCwd(_)
GetCwd(d) ==
    IF d = <<>> THEN <<SEP>>
    ELSE IF Len(d) = 1 THEN <<SEP, d[1]>>
    ELSE GetCwd(SubSeq(d, 1, Len(d) - 1)) \o <<SEP, d[Len(d)]>>

\* the directory (or file location) a path string names, seen from directory c
Components(s) == SelectSeq(s, LAMBDA t : t # SEP)
Resolve(s, c) == IF StartsWithSep(s) THEN Components(s) ELSE c \o Components(s)

Prefixes(d) == {SubSeq(d, 1, i) : i \in 0..Len(d)}

\* os.path.isdir(s); the empty string names nothing
IsDir(s, c, ds) == s # <<>> /\ Resolve(s, c) \in ds

\* os.makedirs(s): the leaf and every missing intermediate directory
MakeDirs(s, c, ds) == ds \cup Prefixes(Resolve(s, c))

----------------------------------------------------------------------------
(* download_neural_data *)
MiniscopeUrl == "https://drive.google.com/file/d/1cLbUqh2LKLXuwqXdjyvMi4DuKMFC0DiM/view?usp=drive_link"
WidefieldUrl == "https://drive.google.com/file/d/1XNCPKY5bRS9QtvY1aj982CjaCkMgeOJt/view?usp=drive_link"
MiniscopeFname == <<"miniscope_data.npy">>
WidefieldFname == <<"widefield_data.mat">>

DataTypes == {"miniscope", "widefield", "other"}
Recognized(t) == t \in {"miniscope", "widefield"}

DownloadIdle ==
    /\ pc = "idle" /\ data_type = "" /\ destination = <<>> /\ dest_none = TRUE
    /\ url = "" /\ fname = <<>> /\ data_file = <<>> /\ bound = {}
    /\ cwd = <<>> /\ dirs = {<<>>} /\ dirs0 = {<<>>} /\ files = {}
    /\ gdown_calls = <<>> /\ exc = "" /\ retval = <<>>

DownloadInit ==
    /\ pc = "L25"
    /\ data_type \in DataTypes
    /\ dest_none \in BOOLEAN
    /\ destination \in (IF dest_none THEN {<<>>} ELSE DestStrings)
    /\ url = "" /\ fname = <<>> /\ data_file = <<>> /\ bound = {}
    /\ cwd \in AllDirs
    /\ \E e \in AllDirs : dirs = Prefixes(cwd) \cup Prefixes(e)
    /\ dirs0 = dirs
    /\ files = {}
    /\ gdown_calls = <<>>
    /\ exc = ""
    /\ retval = <<>>

\* io.py 25-30: the if / elif without else
KindUrl(t) == IF t = "miniscope" THEN MiniscopeUrl ELSE WidefieldUrl
\* a slip that would swap the two file names
KindFnameSwapped(t) == IF t = "miniscope" THEN WidefieldFname ELSE MiniscopeFname


KindFname(t) == IF t = "miniscope" THEN MiniscopeFname ELSE WidefieldFname

SelectKind ==
    /\ pc = "L25"
    /\ IF data_type = "miniscope" \/ data_type = "widefield"
          THEN /\ url' = KindUrl(data_type)
               /\ fname' = KindFname(data_type)
               /\ bound' = bound \cup {"url", "fname"}
          ELSE UNCHANGED <<url, fname, bound>>
    /\ pc' = "L32"
    /\ UNCHANGED <<data_type, destination, dest_none, data_file, cwd, dirs,
                   dirs0, files, gdown_calls, exc, retval>>
    /\ UNCHANGED <<ovars, avars>>
\* a slip that would put the folder inside the working directory
DefaultDestinationInCwd(c) == Join(GetCwd(c), <<DataFolder>>)

\* io.py 33-34
DefaultDestination(c) == Join(Split(GetCwd(c))[1], <<DataFolder>>)

\* io.py 35-36, nested in the "destination is None" branch
EnsureDirectory(none, dest, c, ds) ==
    IF none /\ ~IsDir(dest, c, ds) THEN MakeDirs(dest, c, ds) ELSE ds

\* io.py 32-36
ResolveDestination ==
    /\ pc = "L32"
    /\ destination' = IF dest_none THEN DefaultDestination(cwd) ELSE destination
    /\ dirs' = EnsureDirectory(dest_none, destination', cwd, dirs)
    /\ pc' = "L37"
    /\ UNCHANGED <<data_type, dest_none, url, fname, data_file, bound, cwd, dirs0, files,
                   gdown_calls, exc, retval>>
    /\ UNCHANGED <<ovars, avars>>

\* io.py 37: reading the unbound local fname raises UnboundLocalError
JoinPath ==
    /\ pc = "L37"
    /\ IF "fname" \in bound
          THEN /\ data_file' = Join(destination, fname)
               /\ bound' = bound \cup {"data_file"}
               /\ pc' = "L39"
               /\ exc' = exc
          ELSE /\ pc' = "raised"
               /\ exc' = "UnboundLocalError"
               /\ UNCHANGED <<data_file, bound>>
    /\ UNCHANGED <<data_type, destination, dest_none, url, fname, cwd, dirs,
                   dirs0, files, gdown_calls, retval>>
    /\ UNCHANGED <<ovars, avars>>

\* io.py 39: gdown.download(url, data_file, quiet=False, fuzzy=True).  The
\* library writes into an existing directory only; the transfer may fail.
Download ==
    /\ pc = "L39"
    /\ LET target == Resolve(Split(data_file)[1], cwd)
           call == [url |-> url, output |-> data_file, dir_exists |-> target \in dirs]
       IN /\ gdown_calls' = Append(gdown_calls, call)
          /\ IF target \notin dirs
                THEN /\ pc' = "raised" /\ exc' = "FileNotFoundError"
                     /\ files' = files
                ELSE \/ /\ pc' = "L40" /\ exc' = exc
                        /\ files' = files \cup {data_file}
                     \/ /\ pc' = "raised" /\ exc' = "DownloadError"
                        /\ files' = files
    /\ UNCHANGED <<data_type, destination, dest_none, url, fname, data_file,
                   bound, cwd, dirs, dirs0, retval>>
    /\ UNCHANGED <<ovars, avars>>

\* io.py 40
Return ==
    /\ pc = "L40"
    /\ retval' = data_file
    /\ pc' = "returned"
    /\ UNCHANGED <<data_type, destination, dest_none, url, fname, data_file,
                   bound, cwd, dirs, dirs0, files, gdown_calls, exc>>
    /\ UNCHANGED <<ovars, avars>>

DownloadNext == SelectKind \/ ResolveDestination \/ JoinPath \/ Download \/ Return

----------------------------------------------------------------------------
(* overlay_neurons *)
Shapes == {<<1, 2>>, <<2, 1>>}
Neurons == 0..(NumNeurons - 1)
Values == 0..MaxVal
Channels == 1..3
Pixels(sh) == (1..sh[1]) \X (1..sh[2])
Cells(sh) == {<<p[1], p[2], n>> : p \in Pixels(sh), n \in Neurons}
ImageDomain(sh) == {<<p[1], p[2], ch>> : p \in Pixels(sh), ch \in Channels}

OverlayIdle ==
    /\ opc = "idle" /\ shape = <<1, 1>> /\ neuron_footprints = <<>>
    /\ n1 = 0 /\ n2 = 0 /\ n3 = 0 /\ cast_wrap = FALSE
    /\ all_cells = <<>> /\ examples = <<>> /\ composite = <<>>

OverlayInit ==
    /\ opc = "start"
    /\ shape \in Shapes
    /\ neuron_footprints \in [Cells(shape) -> Values]
    /\ n1 = 0 /\ n2 = 0 /\ n3 = 0 /\ cast_wrap = FALSE
    /\ all_cells = <<>> /\ examples = <<>> /\ composite = <<>>

RECURSIVE SumOver(_, _, _, _)
SumOver(fp, r, c, n) ==
    IF n < 0 THEN 0 ELSE fp[<<r, c, n>>] + SumOver(fp, r, c, n - 1)

\* np.sum(neuron_footprints, axis=2) at one pixel, in units of 1/Denom
SumFootprints(fp, r, c) == SumOver(fp, r, c, NumNeurons - 1)
\* a slip that would normalize by the maximum of the whole array
MaxFootprintGlobal(fp, sh, n) ==
    LET vals == {fp[x] : x \in Cells(sh)}
    IN CHOOSE v \in vals : \A w \in vals : w <= v

\* np.max(neuron_footprints[:,:,n]), in units of 1/Denom
MaxFootprint(fp, sh, n) ==
    LET vals == {fp[<<p[1], p[2], n>>] : p \in Pixels(sh)}
    IN CHOOSE v \in vals : \A w \in vals : w <= v

\* np.uint8 of the non-negative float num/den (the quotient is taken exactly,
\* without the rounding of double arithmetic): the fraction is dropped; a
\* value above 255 is outside the target type and the cast of it is left to
\* the platform, which either keeps the low eight bits or saturates
ToUint8(num, den, wrap) ==
    LET t == num \div den
    IN IF t <= 255 THEN t ELSE IF wrap THEN t % 256 ELSE 255

\* visualizations.py 18-19: one grey value of all_cells
GreyValue(fp, r, c, wrap) == ToUint8(SumFootprints(fp, r, c) * 255, Denom, wrap)

\* visualizations.py 20-22: one channel value of examples; a footprint whose
\* maximum is 0 gives 0/0 = NaN, which the cast turns into 0
ChannelValue(fp, sh, n, r, c, wrap) ==
    LET m == MaxFootprint(fp, sh, n)
    IN IF m = 0 THEN 0 ELSE ToUint8(fp[<<r, c, n>>] * 255, m, wrap)

SelectedNeuron(ch, a, b, d) == IF ch = 1 THEN a ELSE IF ch = 2 THEN b ELSE d

\* visualizations.py 23: Image.blend(im1, im2, alpha) on one 8-bit band,
\* out = (UINT8)(in1 + alpha * (in2 - in1)) with alpha = AlphaNum / AlphaDen
AlphaNum == 1
AlphaDen == 2
\* a slip that would add the two images instead of mixing them
BlendAdd(in1, in2) == in1 + in2


Blend(in1, in2) == (in1 * AlphaDen + AlphaNum * (in2 - in1)) \div AlphaDen

\* visualizations.py 18-28
Overlay ==
    /\ opc = "start"
    /\ \E a \in Neurons, b \in Neurons, d \in Neurons, w \in BOOLEAN :
          /\ n1' = a /\ n2' = b /\ n3' = d /\ cast_wrap' = w
          /\ all_cells' = [x \in ImageDomain(shape) |->
                              GreyValue(neuron_footprints, x[1], x[2], w)]
          /\ examples' = [x \in ImageDomain(shape) |->
                              ChannelValue(neuron_footprints, shape,
                                           SelectedNeuron(x[3], a, b, d),
                                           x[1], x[2], w)]
          /\ composite' = [x \in ImageDomain(shape) |->
                              Blend(all_cells'[x], examples'[x])]
    /\ opc' = "shown"
    /\ UNCHANGED <<shape, neuron_footprints>>
    /\ UNCHANGED <<dvars, avars>>

OverlayNext == Overlay

----------------------------------------------------------------------------
(* create_subplot_axes *)
FigSizes == {<<12, 12>>, <<4, 3>>}
Counts == (-MaxNeg)..MaxCount

AxesIdle ==
    /\ apc = "idle" /\ n_rows = 1 /\ n_cols = 1 /\ fig_size = <<12, 12>>
    /\ subplot_num = 0 /\ k = 0 /\ axes_list = <<>> /\ fig = 0
    /\ figures = <<>> /\ figures0 = {} /\ add_subplot_calls = <<>> /\ aexc = ""

AxesInit ==
    /\ apc = "L49"
    /\ n_rows \in Counts
    /\ n_cols \in Counts
    /\ fig_size \in FigSizes
    /\ subplot_num = 0 /\ k = 0 /\ axes_list = <<>> /\ fig = 0
    /\ figures \in {<<>>, <<(<<6, 4>>)>>}
    /\ figures0 = DOMAIN figures
    /\ add_subplot_calls = <<>>
    /\ aexc = ""
\* a slip that would take the magnitude of the product
SubplotNumAbs(r, c) == IF r * c < 0 THEN -(r * c) ELSE r * c

\* visualizations.py 49
SubplotNum(r, c) == r * c
\* a slip that would pass the 0-based loop variable
SubplotIndexZeroBased(kk) == kk

\* visualizations.py 53: the index passed for loop variable kk
SubplotIndex(kk) == kk + 1

\* Figure.add_subplot(nrows, ncols, index) of the plotting library: the
\* counts must be positive and the index in 1..nrows*ncols
AddSubplotAccepts(nr, nc, idx) == nr > 0 /\ nc > 0 /\ idx >= 1 /\ idx <= nr * nc

\* the axes it creates: index counts the grid cells row by row
AddSubplot(f, nr, nc, idx) ==
    [figure |-> f, row |-> (idx - 1) \div nc, col |-> (idx - 1) % nc,
     nrows |-> nr, ncols |-> nc]

\* visualizations.py 49-51: plt.figure makes a new figure with the next number
CreateFigure ==
    /\ apc = "L49"
    /\ subplot_num' = SubplotNum(n_rows, n_cols)
    /\ axes_list' = <<>>
    /\ fig' = Len(figures) + 1
    /\ figures' = Append(figures, fig_size)
    /\ k' = 0
    /\ apc' = "L52"
    /\ UNCHANGED <<n_rows, n_cols, fig_size, figures0, add_subplot_calls, aexc>>
    /\ UNCHANGED <<dvars, ovars>>

\* visualizations.py 52-53: one iteration of the loop over range(subplot_num)
LoopStep ==
    /\ apc = "L52"
    /\ k < subplot_num
    /\ LET idx == SubplotIndex(k)
       IN /\ add_subplot_calls' = Append(add_subplot_calls,
                 [nrows |-> n_rows, ncols |-> n_cols, index |-> idx])
          /\ IF AddSubplotAccepts(n_rows, n_cols, idx)
                THEN /\ axes_list' = Append(axes_list, AddSubplot(fig, n_rows, n_cols, idx))
                     /\ k' = k + 1
                     /\ UNCHANGED <<apc, aexc>>
                ELSE /\ apc' = "raised"
                     /\ aexc' = "ValueError"
                     /\ UNCHANGED <<axes_list, k>>
    /\ UNCHANGED <<n_rows, n_cols, fig_size, subplot_num, fig, figures, figures0>>
    /\ UNCHANGED <<dvars, ovars>>

\* visualizations.py 55, reached when range(subplot_num) is exhausted
ReturnAxes ==
    /\ apc = "L52"
    /\ ~(k < subplot_num)
    /\ apc' = "returned"
    /\ UNCHANGED <<n_rows, n_cols, fig_size, subplot_num, k, axes_list, fig,
                   figures, figures0, add_subplot_calls, aexc>>
    /\ UNCHANGED <<dvars, ovars>>

AxesNext == CreateFigure \/ LoopStep \/ ReturnAxes

----------------------------------------------------------------------------
(* Specifications: one per function; the functions share no state *)
InitDownload == DownloadInit /\ OverlayIdle /\ AxesIdle
SpecDownload == InitDownload /\ [][DownloadNext]_vars

InitOverlay == DownloadIdle /\ OverlayInit /\ AxesIdle
SpecOverlay == InitOverlay /\ [][OverlayNext]_vars

InitAxes == DownloadIdle /\ OverlayIdle /\ AxesInit
SpecAxes == InitAxes /\ [][AxesNext]_vars

----------------------------------------------------------------------------
(* Claims about download_neural_data, checked under SpecDownload *)
DownloadEnded == pc \in {"returned", "raised"}
ParentDir(d) == IF d = <<>> THEN <<>> ELSE SubSeq(d, 1, Len(d) - 1)
ExpectedName ==
    IF data_type = "miniscope" THEN <<"miniscope_data.npy">> ELSE <<"widefield_data.mat">>

\* C1: a call with an unrecognized data_type ends in a well-defined
\* invalid-argument error (ValueError), not in an unbound-variable failure
\* and not in a normal return.
C1_UnknownKindIsInvalidArgument ==
    (~Recognized(data_type) /\ DownloadEnded) => (pc = "raised" /\ exc = "ValueError")

\* C2: for a recognized data_type, at the moment the download operation is
\* invoked the destination directory exists, whether destination was passed
\* or omitted.
C2_DestinationExistsAtDownload ==
    (Recognized(data_type) /\ pc = "L39" /\ destination # <<>>)
        => Resolve(destination, cwd) \in dirs

\* C3: the file name of the returned path is miniscope_data.npy for
\* "miniscope" and widefield_data.mat for "widefield", for every destination;
\* the two kinds have different URLs, and the (URL, path) pair handed to the
\* download operation is the pair of the requested kind.
C3_KindNameAndUrl ==
    /\ MiniscopeUrl # WidefieldUrl
    /\ pc = "returned" =>
          /\ data_type = "miniscope" => Split(retval)[2] = <<"miniscope_data.npy">>
          /\ data_type = "widefield" => Split(retval)[2] = <<"widefield_data.mat">>
    /\ \A i \in 1..Len(gdown_calls) :
          /\ data_type = "miniscope" =>
                /\ gdown_calls[i].url = MiniscopeUrl
                /\ gdown_calls[i].output = Join(destination, <<"miniscope_data.npy">>)
          /\ data_type = "widefield" =>
                /\ gdown_calls[i].url = WidefieldUrl
                /\ gdown_calls[i].output = Join(destination, <<"widefield_data.mat">>)
          /\ Recognized(data_type)

C3_Witness ==
    /\ pc = "returned" /\ data_type = "widefield"
    /\ ~dest_none /\ EndsWithSep(destination) /\ Len(destination) > 1

\* C6 as stated: the returned path is the path passed to the download
\* operation and is destination joined with the kind's file name; with
\* destination omitted the destination is DataSAI_data_folder directly inside
\* the parent of the working directory, and is never the working directory.
C6_DefaultNeverWorkingDirectory ==
    pc = "returned" =>
        /\ Len(gdown_calls) = 1 /\ retval = gdown_calls[1].output
        /\ retval = Join(destination, ExpectedName)
        /\ dest_none =>
              /\ Resolve(destination, cwd) = Append(ParentDir(cwd), DataFolder)
              /\ Resolve(destination, cwd) # cwd

\* C6 amended: as above, except that the default destination is the working
\* directory itself exactly when the working directory's own name is
\* DataSAI_data_folder.
C6_DefaultIsFolderInParent ==
    pc = "returned" =>
        /\ Len(gdown_calls) = 1 /\ retval = gdown_calls[1].output
        /\ retval = Join(destination, ExpectedName)
        /\ dest_none =>
              /\ Resolve(destination, cwd) = Append(ParentDir(cwd), DataFolder)
              /\ Resolve(destination, cwd) = cwd
                    <=> (cwd # <<>> /\ cwd[Len(cwd)] = DataFolder)

C6_Witness ==
    /\ pc = "returned" /\ dest_none /\ Len(cwd) = 2
    /\ Resolve(destination, cwd) = cwd

\* C7: a call with an unrecognized data_type fails without any side effect:
\* no directory has been created and the download operation was not invoked.
C7_UnknownKindNoSideEffect ==
    (~Recognized(data_type) /\ pc = "raised")
        => (dirs = dirs0 /\ gdown_calls = <<>> /\ files = {})

----------------------------------------------------------------------------
(* Claims about overlay_neurons, checked under SpecOverlay *)
Image == {<<r, c, ch>> : r \in 1..shape[1], c \in 1..shape[2], ch \in 1..3}
Chosen(ch) == IF ch = 1 THEN n1 ELSE IF ch = 2 THEN n2 ELSE n3
PositiveMax(n) ==
    \E r \in 1..shape[1], c \in 1..shape[2] : neuron_footprints[<<r, c, n>>] > 0
IsMax(r, c, n) ==
    \A r2 \in 1..shape[1], c2 \in 1..shape[2] :
        neuron_footprints[<<r2, c2, n>>] <= neuron_footprints[<<r, c, n>>]
PixelSum(r, c) ==
    LET f[n \in (-1)..(NumNeurons - 1)] ==
            IF n < 0 THEN 0 ELSE neuron_footprints[<<r, c, n>>] + f[n - 1]
    IN f[NumNeurons - 1]

\* C5: when the three selected footprints have positive maxima, the displayed
\* composite has shape (H, W, 3) and every value is an integer in 0..255 that
\* is the 50% mix (fraction dropped) of the all-cells and examples values.
C5_CompositeIsHalfMix ==
    (opc = "shown" /\ PositiveMax(n1) /\ PositiveMax(n2) /\ PositiveMax(n3)) =>
        /\ DOMAIN composite = Image
        /\ \A x \in Image :
              /\ composite[x] \in 0..255
              /\ 2 * composite[x] <= all_cells[x] + examples[x]
              /\ all_cells[x] + examples[x] <= 2 * composite[x] + 1

C5_Witness ==
    /\ opc = "shown" /\ PositiveMax(n1) /\ PositiveMax(n2) /\ PositiveMax(n3)
    /\ shape = <<2, 1>>
    /\ \E x \in Image : (all_cells[x] + examples[x]) % 2 = 1 /\ examples[x] > all_cells[x]

\* C8: the three channels of the all-cells image are identical, and with the
\* 8-bit conversion taken mod 256 the pixel with the larger summed footprint
\* never has the smaller grey value.
C8_GreyIsMonotone ==
    (opc = "shown" /\ cast_wrap) =>
        /\ \A x \in Image : all_cells[x] = all_cells[<<x[1], x[2], 1>>]
        /\ \A x \in Image, y \in Image :
              PixelSum(x[1], x[2]) > PixelSum(y[1], y[2]) => all_cells[x] >= all_cells[y]

\* C9: each channel of the examples image is a function of its own selected
\* footprint alone, divided by that footprint's maximum: when the maximum is
\* positive the channel's values are in 0..255, its largest value is 255
\* (taken where the footprint is largest), it is 0 where the footprint is 0
\* and it grows with the footprint; two channels given the same index are
\* identical at every pixel.
C9_ChannelsNormalizedByOwnMax ==
    opc = "shown" =>
        /\ \A ch \in 1..3 : PositiveMax(Chosen(ch)) =>
              /\ \A x \in Image : examples[x] \in 0..255
              /\ \A r \in 1..shape[1], c \in 1..shape[2] :
                    /\ IsMax(r, c, Chosen(ch)) => examples[<<r, c, ch>>] = 255
                    /\ neuron_footprints[<<r, c, Chosen(ch)>>] = 0
                          => examples[<<r, c, ch>>] = 0
                    /\ \A r2 \in 1..shape[1], c2 \in 1..shape[2] :
                          neuron_footprints[<<r, c, Chosen(ch)>>]
                              <= neuron_footprints[<<r2, c2, Chosen(ch)>>]
                          => examples[<<r, c, ch>>] <= examples[<<r2, c2, ch>>]
        /\ \A ch1 \in 1..3, ch2 \in 1..3 : Chosen(ch1) = Chosen(ch2) =>
              \A r \in 1..shape[1], c \in 1..shape[2] :
                  examples[<<r, c, ch1>>] = examples[<<r, c, ch2>>]

C9_Witness ==
    /\ opc = "shown" /\ n1 = n2 /\ n1 # n3
    /\ PositiveMax(n1) /\ PositiveMax(n3)
    /\ \E x \in Image : examples[x] > 0 /\ examples[x] < 255
    /\ \E r \in 1..shape[1], c \in 1..shape[2] :
          examples[<<r, c, 1>>] # examples[<<r, c, 3>>]

----------------------------------------------------------------------------
(* Claims about create_subplot_axes, checked under SpecAxes *)
AxesEnded == apc \in {"returned", "raised"}
NonPositiveCount == n_rows <= 0 \/ n_cols <= 0

\* C4: with n_rows >= 1 and n_cols >= 1 the call creates exactly one new
\* figure and returns n_rows*n_cols handles of that figure, the handle at
\* 0-based position i in grid row i div n_cols and grid column i mod n_cols.
C4_RowMajorAxes ==
    (AxesEnded /\ n_rows >= 1 /\ n_cols >= 1) =>
        /\ apc = "returned"
        /\ Len(figures) = Cardinality(figures0) + 1
        /\ fig \in DOMAIN figures /\ fig \notin figures0
        /\ Len(axes_list) = n_rows * n_cols
        /\ \A i \in 0..(Len(axes_list) - 1) :
              /\ axes_list[i + 1].figure = fig
              /\ axes_list[i + 1].row = i \div n_cols
              /\ axes_list[i + 1].col = i % n_cols

C4_Witness ==
    /\ apc = "returned" /\ n_rows = 2 /\ n_cols = 3 /\ Len(axes_list) = 6
    /\ axes_list[3].row = 0 /\ axes_list[4].row = 1 /\ axes_list[4].col = 0

\* C10 as stated: for a non-positive row or column count the function never
\* returns a list without having passed the counts to the library's
\* subplot-creation operation.
C10_NonPositiveAlwaysDelegated ==
    (apc = "returned" /\ NonPositiveCount) =>
        \E i \in 1..Len(add_subplot_calls) :
            add_subplot_calls[i].nrows = n_rows /\ add_subplot_calls[i].ncols = n_cols

\* C10 amended: for a non-positive row or column count, the subplot-creation
\* operation is invoked, first with index 1 and always with the given counts,
\* exactly when both counts are negative (their product is positive); when
\* the product is not positive the function creates its figure and returns an
\* empty list without invoking subplot creation.
C10_DelegatedOnlyWhenProductPositive ==
    (AxesEnded /\ NonPositiveCount) =>
        IF n_rows * n_cols > 0
           THEN /\ add_subplot_calls # <<>>
                /\ add_subplot_calls[1].index = 1
                /\ \A i \in 1..Len(add_subplot_calls) :
                      /\ add_subplot_calls[i].nrows = n_rows
                      /\ add_subplot_calls[i].ncols = n_cols
           ELSE /\ apc = "returned"
                /\ axes_list = <<>>
                /\ add_subplot_calls = <<>>
                /\ Len(figures) = Cardinality(figures0) + 1

C10_Witness ==
    /\ apc = "returned" /\ n_rows = -1 /\ n_cols = 2
    /\ axes_list = <<>> /\ add_subplot_calls = <<>>

====
